---- MODULE Spec2Model ----
(***************************************************************************)
(* Model of the RAG pipeline: the chunker (document_processing/chunker.py), *)
(* the vector-store client (vector_store/weaviate_store.py) and the        *)
(* orchestrator (rag/pipeline.py).                                         *)
(***************************************************************************)
EXTENDS Integers, Sequences, FiniteSets, TLC

VARIABLES
    \* ---- chunk_text's frame (chunker.py) ----
    text,           \* argument text, a sequence of characters
    chunk_size,     \* argument chunk_size
    chunk_overlap,  \* argument chunk_overlap
    start,          \* local start
    chunks,         \* local chunks
    ct_pc,          \* "idle" | "entry" | "loop" | "return"
    ct_result,      \* the returned list (meaningful when ct_pc = "return")
    \* ---- the Weaviate service ----
    collection_exists,  \* whether the collection class_name exists
    objects,            \* the collection's records, in insertion order
    \* ---- WeaviateStore (weaviate_store.py) ----
    client,         \* self.client: "none" | "open" | "closed"
    max_retries,    \* self.max_retries
    attempt,        \* _create_collection_with_retry's loop variable
    last_error,     \* _create_collection_with_retry's last_error
    ws_pc,          \* position of the constructor: "none" | "exists" | "create"
                    \* | "sleep" | "raise" | "ready" | "failed" | "closed"
    \* ---- RAGPipeline (pipeline.py) ----
    rag,            \* "none" | "constructing" | "ready" | "failed" | "closed"
                    \* | "dropped" (the handler that held it has returned)
    config,         \* config.chunk: chunk_size and chunk_overlap (settings.py)
    file_paths,     \* ingest_multiple's argument
    next_path,      \* ingest_multiple's position in file_paths (from 1)
    total_chunks,   \* ingest_multiple's total_chunks
    \* ---- the caller's view of the current (or last) top-level call ----
    call,           \* the call and its arguments
    ret,            \* how it ended: returned value or raised error
    io,             \* the calls it has made so far, in order
    \* ---- WeaviateStore constructors running at the same time ----
    peers           \* per constructor: its position, loop variable,
                    \* last_error, max_retries, outcome and calls made

chunk_vars == <<text, chunk_size, chunk_overlap, start, chunks, ct_pc, ct_result>>
service_vars == <<collection_exists, objects>>
store_vars == <<client, max_retries, attempt, last_error, ws_pc>>
pipe_vars == <<config, file_paths, next_path, total_chunks>>
call_vars == <<call, ret, io>>

race_vars == <<peers>>

vars == <<chunk_vars, service_vars, store_vars, rag, pipe_vars, call_vars, race_vars>>

\* ------------------------------------------------------------------ bounds
MaxTextLen == 10
MaxChunkSize == 5
MaxOverlap == 5
\* largest max_retries a caller passes to WeaviateStore directly
MaxRetries == 2
\* texts and vectors a caller passes to add_documents in one call
MaxBatch == 2
\* records the collection holds before further inserts are left out
MaxObjects == 3
\* largest top_k a caller passes to search
MaxTopK == 2
\* longest list of paths a caller passes to ingest_multiple
MaxPaths == 3
\* iterations of chunk_text's loop that are followed (a valid call needs at
\* most MaxTextLen of them)
IterCap == MaxTextLen + 1

\* ---------------------------------------------------------------- helpers
Min(a, b) == IF a < b THEN a ELSE b
Max(a, b) == IF a > b THEN a ELSE b

\* ------------------------------------------------------------ input texts
Alphabet == <<"A", "B", "C", "D", "E", "F", "G", "H", "I", "J", "K", "L">>
Periods == {1, 3, Len(Alphabet)}
\* the text of length n that repeats the first p letters of the alphabet
TextOf(n, p) == [i \in 1..n |-> Alphabet[((i - 1) % p) + 1]]
Texts == {TextOf(n, p) : n \in 0..MaxTextLen, p \in Periods}
\* the first n letters
Letters(n) == TextOf(n, Len(Alphabet))

\* ===================================================================
\* chunker.py
\* ===================================================================

\* Python's s[a:b] for a sequence s and integers a, b (no step): a negative
\* index counts from the end, and both are clamped to 0..len(s).
SliceIndex(s, i) == IF i < 0 THEN Max(i + Len(s), 0) ELSE Min(i, Len(s))
Slice(s, a, b) == SubSeq(s, SliceIndex(s, a) + 1, SliceIndex(s, b))

\* mutation of WhileCond: the loop stops one position early
WhileCondStopsEarly(t, st) == st.start < Len(t) - 1

\* `while start < len(text)`
WhileCond(t, st) == st.start < Len(t)

\* mutation of WhileBody: the window advances by chunk_size, the overlap is
\* forgotten
WhileBodyNoOverlap(t, size, overlap, st) ==
    [start |-> st.start + size,
     chunks |-> Append(st.chunks, Slice(t, st.start, st.start + size))]

\* mutation of WhileBody: the window advances one character too far
WhileBodySkipsOne(t, size, overlap, st) ==
    [start |-> st.start + size - overlap + 1,
     chunks |-> Append(st.chunks, Slice(t, st.start, st.start + size))]

\* one iteration of the sliding window: end = start + chunk_size;
\* chunks.append(text[start:end]); start = start + chunk_size - chunk_overlap
WhileBody(t, size, overlap, st) ==
    LET end == st.start + size
        chunk == Slice(t, st.start, end)
    IN  [start |-> st.start + size - overlap,
         chunks |-> Append(st.chunks, chunk)]

\* mutation of FitsInOneChunk: `<` instead of `<=`
FitsInOneChunkStrict(t, size) == Len(t) < size

\* `if len(text) <= chunk_size: return [text]`
FitsInOneChunk(t, size) == Len(t) <= size

\* chunk_text as a function of its arguments. The while loop runs at most
\* `fuel` iterations here; returned = FALSE when it was still running then.
RECURSIVE while_loop(_, _, _, _, _)
while_loop(t, size, overlap, st, fuel) ==
    IF ~WhileCond(t, st) THEN [returned |-> TRUE, chunks |-> st.chunks]
    ELSE IF fuel = 0 THEN [returned |-> FALSE, chunks |-> st.chunks]
    ELSE while_loop(t, size, overlap, WhileBody(t, size, overlap, st), fuel - 1)

chunk_text(t, size, overlap) ==
    IF t = <<>> THEN [returned |-> TRUE, chunks |-> <<>>]
    ELSE IF FitsInOneChunk(t, size) THEN [returned |-> TRUE, chunks |-> <<t>>]
    ELSE while_loop(t, size, overlap, [start |-> 0, chunks |-> <<>>], IterCap)

\* ===================================================================
\* Values shared by the store and the pipeline
\* ===================================================================
app_vars == <<service_vars, store_vars, rag, pipe_vars, call_vars, race_vars>>

\* an exception: its type and, for the ConnectionError of the retry loop, the
\* underlying failure its message carries
Error(type, cause) == [type |-> type, cause |-> cause]
NoError == Error("None", "None")

\* how a call ended
Pending == [outcome |-> "pending", error |-> NoError, ids |-> <<>>,
            count |-> 0, answer |-> "None", results |-> <<>>]
Raised(e) == [Pending EXCEPT !.outcome = "raise", !.error = e]
Returned0 == [Pending EXCEPT !.outcome = "return"]

\* one call made by the running top-level call: what was called, its integer
\* and string arguments, and "ok" or the failure it raised
Event(what, n, str, result) == [what |-> what, n |-> n, str |-> str, result |-> result]
Where(events, what) == SelectSeq(events, LAMBDA e : e.what = what)

\* failures the Weaviate service or the network can answer a call with
Failures == {"not_ready", "unavailable"}

\* config.chunk, scaled to the model's texts: chunk_size 4, chunk_overlap 1
\* for the 1000 and 200 of settings.py
DefaultConfig == [chunk_size |-> 4, chunk_overlap |-> 1]

\* no constructors run side by side
NoPeers == <<>>

\* what the service holds when the program starts: no collection, or the
\* collection of an earlier run, empty or with a record in it
StoredBefore(exists) ==
    IF exists
    THEN {<<>>, <<[content |-> <<"A">>, source |-> "doc", chunk_index |-> 0,
                   vector |-> <<1, 0>>, uuid |-> 1]>>}
    ELSE {<<>>}

AppInit ==
    /\ collection_exists \in BOOLEAN
    /\ objects \in StoredBefore(collection_exists)
    /\ client = "none"
    /\ max_retries = 0
    /\ attempt = 0
    /\ last_error = "None"
    /\ ws_pc = "none"
    /\ rag = "none"
    /\ config = DefaultConfig
    /\ file_paths = <<>>
    /\ next_path = 1
    /\ total_chunks = 0
    /\ call = [op |-> "none"]
    /\ ret = Pending
    /\ io = <<>>
    /\ peers = NoPeers

ChunkIdle ==
    /\ text = <<>>
    /\ chunk_size = 0
    /\ chunk_overlap = 0
    /\ start = 0
    /\ chunks = <<>>
    /\ ct_pc = "idle"
    /\ ct_result = <<>>

\* ---- the same call, one step at a time ----
InitChunk ==
    /\ text \in Texts
    /\ chunk_size \in 0..MaxChunkSize
    /\ chunk_overlap \in (0 - 1)..MaxOverlap
    /\ start = 0
    /\ chunks = <<>>
    /\ ct_pc = "entry"
    /\ ct_result = <<>>
    /\ AppInit
    /\ collection_exists = FALSE

\* `if not text: return []`
ReturnEmpty ==
    /\ ct_pc = "entry"
    /\ text = <<>>
    /\ ct_pc' = "return"
    /\ ct_result' = <<>>
    /\ UNCHANGED <<text, chunk_size, chunk_overlap, start, chunks>>
    /\ UNCHANGED app_vars

\* `if len(text) <= chunk_size: return [text]`
ReturnSingle ==
    /\ ct_pc = "entry"
    /\ text # <<>>
    /\ FitsInOneChunk(text, chunk_size)
    /\ ct_pc' = "return"
    /\ ct_result' = <<text>>
    /\ UNCHANGED <<text, chunk_size, chunk_overlap, start, chunks>>
    /\ UNCHANGED app_vars

\* `chunks = []; start = 0`
EnterLoop ==
    /\ ct_pc = "entry"
    /\ text # <<>>
    /\ ~FitsInOneChunk(text, chunk_size)
    /\ ct_pc' = "loop"
    /\ chunks' = <<>>
    /\ start' = 0
    /\ UNCHANGED <<text, chunk_size, chunk_overlap, ct_result>>
    /\ UNCHANGED app_vars

\* one iteration of `while start < len(text)`
LoopIter ==
    /\ ct_pc = "loop"
    /\ WhileCond(text, [start |-> start, chunks |-> chunks])
    /\ Len(chunks) < IterCap
    /\ LET st == WhileBody(text, chunk_size, chunk_overlap,
                           [start |-> start, chunks |-> chunks])
       IN  /\ start' = st.start
           /\ chunks' = st.chunks
    /\ UNCHANGED <<text, chunk_size, chunk_overlap, ct_pc, ct_result>>
    /\ UNCHANGED app_vars

\* the loop condition is false: `return chunks`
LoopExit ==
    /\ ct_pc = "loop"
    /\ ~WhileCond(text, [start |-> start, chunks |-> chunks])
    /\ ct_pc' = "return"
    /\ ct_result' = chunks
    /\ UNCHANGED <<text, chunk_size, chunk_overlap, start, chunks>>
    /\ UNCHANGED app_vars

NextChunk ==
    \/ ReturnEmpty
    \/ ReturnSingle
    \/ EnterLoop
    \/ LoopIter
    \/ LoopExit

\* The interpreter keeps executing a running call: weak fairness of its steps.
SpecChunk == InitChunk /\ [][NextChunk]_vars /\ WF_vars(NextChunk)

\* ===================================================================
\* weaviate_store.py
\* ===================================================================
DefaultMaxRetries == 5

RECURSIVE Pow(_, _)
Pow(b, n) == IF n = 0 THEN 1 ELSE b * Pow(b, n - 1)

\* no top-level call is running
Idle ==
    /\ call.op = "none" \/ ret.outcome \in {"return", "raise"}
    /\ rag # "constructing"

\* `for attempt in range(self.max_retries)`: the body runs for attempt a, or
\* the loop is over and the ConnectionError is raised
LoopHead(a, m) == IF a < m THEN "exists" ELSE "raise"

\* WeaviateStore.__init__ up to the retry loop: the fields are set and
\* weaviate.connect_to_local opens the connection (or raises)
StoreInit(m, connected) ==
    /\ max_retries' = m
    /\ attempt' = 0
    /\ last_error' = "None"
    /\ IF connected
       THEN /\ client' = "open"
            /\ ws_pc' = LoopHead(0, m)
            /\ ret' = Pending
            /\ io' = <<Event("connect_to_local", 0, "", "ok")>>
       ELSE /\ client' = "none"
            /\ ws_pc' = "failed"
            /\ ret' = Raised(Error("WeaviateStartUpError", "None"))
            /\ io' = <<Event("connect_to_local", 0, "", "unavailable")>>
    /\ UNCHANGED service_vars

\* the store of the last construction is usable
Live == client = "open" /\ ws_pc = "ready"

\* a caller constructs WeaviateStore(max_retries=m)
ConstructStore ==
    /\ Idle
    /\ ~Live
    /\ \E m \in 0..MaxRetries, connected \in BOOLEAN :
        /\ call' = [op |-> "WeaviateStore", max_retries |-> m]
        /\ StoreInit(m, connected)
    /\ UNCHANGED rag
    /\ UNCHANGED <<chunk_vars, race_vars, pipe_vars>>

\* the except clause of the retry loop: last_error = e, then the sleep
AttemptFails(e) ==
    /\ last_error' = e
    /\ ws_pc' = "sleep"
    /\ UNCHANGED <<client, max_retries, attempt, ret>>

\* _create_collection returned: _create_collection_with_retry returns, and so
\* does the constructor
AttemptReturns ==
    /\ ws_pc' = "ready"
    /\ ret' = Returned0
    /\ UNCHANGED <<client, max_retries, attempt, last_error>>

\* mutation of ExistsCall: the answer of exists is not looked at, create is
\* always called
ExistsCallIgnoresAnswer ==
    /\ ws_pc = "exists"
    /\ \/ /\ io' = Append(io, Event("exists", attempt, "", "ok"))
          /\ ws_pc' = "create"
          /\ UNCHANGED <<client, max_retries, attempt, last_error, ret>>
       \/ \E e \in Failures :
          /\ io' = io \o <<Event("exists", attempt, "", e),
                           Event("_create_collection", attempt, "", e)>>
          /\ AttemptFails(e)
    /\ UNCHANGED <<service_vars, rag, call>>
    /\ UNCHANGED <<chunk_vars, race_vars, pipe_vars>>

\* _create_collection: `self.client.collections.exists(self.class_name)`
ExistsCall ==
    /\ ws_pc = "exists"
    /\ \/ /\ collection_exists
          /\ io' = io \o <<Event("exists", attempt, "", "ok"),
                           Event("_create_collection", attempt, "", "ok")>>
          /\ AttemptReturns
       \/ /\ ~collection_exists
          /\ io' = Append(io, Event("exists", attempt, "", "ok"))
          /\ ws_pc' = "create"
          /\ UNCHANGED <<client, max_retries, attempt, last_error, ret>>
       \/ \E e \in Failures :
          /\ io' = io \o <<Event("exists", attempt, "", e),
                           Event("_create_collection", attempt, "", e)>>
          /\ AttemptFails(e)
    /\ UNCHANGED <<service_vars, rag, call>>
    /\ UNCHANGED <<chunk_vars, race_vars, pipe_vars>>

\* _create_collection: `self.client.collections.create(...)`
CreateCall ==
    /\ ws_pc = "create"
    /\ \/ /\ ~collection_exists
          /\ collection_exists' = TRUE
          /\ io' = io \o <<Event("create", attempt, "", "ok"),
                           Event("_create_collection", attempt, "", "ok")>>
          /\ AttemptReturns
       \/ \E e \in Failures \cup (IF collection_exists THEN {"already_exists"} ELSE {}) :
          /\ io' = io \o <<Event("create", attempt, "", e),
                           Event("_create_collection", attempt, "", e)>>
          /\ AttemptFails(e)
          /\ UNCHANGED collection_exists
    /\ UNCHANGED <<objects, rag, call>>
    /\ UNCHANGED <<chunk_vars, race_vars, pipe_vars>>

\* mutation of WaitTime: the waits the docstring lists (2, 4, 8, ...)
WaitTimeFromTwo(a) == Pow(2, a + 1)

\* `wait_time = 2 ** attempt`
WaitTime(a) == Pow(2, a)

\* `time.sleep(wait_time)` in the except clause, then the next round of the
\* for loop
Sleep ==
    /\ ws_pc = "sleep"
    /\ LET wait_time == WaitTime(attempt)
       IN  io' = Append(io, Event("sleep", wait_time, "", "ok"))
    /\ attempt' = attempt + 1
    /\ ws_pc' = LoopHead(attempt + 1, max_retries)
    /\ UNCHANGED <<service_vars, client, max_retries, last_error, rag, call, ret>>
    /\ UNCHANGED <<chunk_vars, race_vars, pipe_vars>>

\* the loop is over: `raise ConnectionError(... Last error: {last_error})`
RaiseConnectionError ==
    /\ ws_pc = "raise"
    /\ ws_pc' = "failed"
    /\ ret' = Raised(Error("ConnectionError", last_error))
    /\ UNCHANGED <<service_vars, client, max_retries, attempt, last_error, rag, call, io>>
    /\ UNCHANGED <<chunk_vars, race_vars, pipe_vars>>

\* ---- add_documents ----
\* embedding vectors: unit vectors, so that the cosine distance of two of
\* them is 1 minus their dot product
Vectors == <<(<<1, 0>>), (<<0, 1>>), (<<0 - 1, 0>>)>>
VectorAt(i) == Vectors[((i - 1) % Len(Vectors)) + 1]

\* the metadata argument: None, or a list of dicts
NoMetadata == [given |-> FALSE, items |-> <<>>]
MetadataList(items) == [given |-> TRUE, items |-> items]
\* dict.get(key, default)
Get(dict, key, default) == IF key \in DOMAIN dict THEN dict[key] ELSE default

\* mutation of LengthsMatch: the validation is left out
LengthsNotChecked(texts, embeddings) == TRUE

\* `if len(texts) != len(embeddings): raise ValueError` is passed
LengthsMatch(texts, embeddings) == Len(texts) = Len(embeddings)

\* the id the service assigns to the record it inserts
NewUuid(objs) == Len(objs) + 1

\* mutation of InsertFails: the records inserted before the failure are
\* taken out again
InsertFailsRollsBack(objs, events, i) ==
    [objects |-> SubSeq(objs, 1, Len(objs) - (i - 1)),
     ret |-> Raised(Error("WeaviateError", "unavailable")),
     io |-> Append(events, Event("insert", i - 1, "", "unavailable"))]

\* collection.data.insert raises for item i: nothing catches it, the error
\* leaves add_documents; objs holds what the earlier rounds inserted
InsertFails(objs, events, i) ==
    [objects |-> objs,
     ret |-> Raised(Error("WeaviateError", "unavailable")),
     io |-> Append(events, Event("insert", i - 1, "", "unavailable"))]

\* the for loop over enumerate(zip(texts, embeddings)) from item i (1-based
\* here, i - 1 in the code) on; failAt is the item whose insert the service
\* fails (0: none). Yields the records, the outcome and the calls made.
RECURSIVE InsertLoop(_, _, _, _, _, _, _, _)
InsertLoop(objs, texts, embeddings, metadata, i, ids, events, failAt) ==
    IF i > Min(Len(texts), Len(embeddings))
    THEN [objects |-> objs, ret |-> [Returned0 EXCEPT !.ids = ids], io |-> events]
    ELSE IF metadata.given /\ metadata.items # <<>> /\ i > Len(metadata.items)
    THEN \* metadata[i] raises IndexError
         [objects |-> objs, ret |-> Raised(Error("IndexError", "None")), io |-> events]
    ELSE IF i = failAt
    THEN InsertFails(objs, events, i)
    ELSE LET meta == IF metadata.given /\ metadata.items # <<>>
                     THEN metadata.items[i] ELSE <<>>
             uuid == NewUuid(objs)
             record == [content |-> texts[i],
                        source |-> Get(meta, "source", "unknown"),
                        chunk_index |-> Get(meta, "chunk_index", i - 1),
                        vector |-> embeddings[i],
                        uuid |-> uuid]
         IN  InsertLoop(Append(objs, record), texts, embeddings, metadata, i + 1,
                        Append(ids, uuid),
                        Append(events, Event("insert", i - 1, "", "ok")), failAt)

\* mutation of add_documents: the loop starts at the second pair
add_documentsSkipsFirst(objs, texts, embeddings, metadata, failAt) ==
    IF ~LengthsMatch(texts, embeddings)
    THEN [objects |-> objs, ret |-> Raised(Error("ValueError", "None")), io |-> <<>>]
    ELSE InsertLoop(objs, texts, embeddings, metadata, 2, <<>>, <<>>, failAt)

add_documents(objs, texts, embeddings, metadata, failAt) ==
    IF ~LengthsMatch(texts, embeddings)
    THEN [objects |-> objs, ret |-> Raised(Error("ValueError", "None")), io |-> <<>>]
    ELSE InsertLoop(objs, texts, embeddings, metadata, 1, <<>>, <<>>, failAt)

\* ---- search ----
Dist(u, v) == 1 - (u[1] * v[1] + u[2] * v[2])
Range(f) == {f[x] : x \in DOMAIN f}
\* how many records the service answers near_vector(limit) with: `limit`,
\* or all of them when there are fewer. What it does with limit = 0 is not
\* in the source: it answers with nothing, or takes 0 as "no limit given"
\* and applies its default, which is not below the records held here.
AnswerSizes(objs, limit) ==
    IF limit = 0 THEN {0, Len(objs)} ELSE {Min(limit, Len(objs))}

\* the n nearest records, nearest first, ties in any order
Nearest(objs, q, n) ==
    LET d(k) == Dist(objs[k].vector, q)
    IN  {r \in [1..n -> 1..Len(objs)] :
            /\ \A i, j \in 1..n : i < j => (r[i] # r[j] /\ d(r[i]) <= d(r[j]))
            /\ \A k \in (1..Len(objs)) \ Range(r) : \A i \in 1..n : d(r[i]) <= d(k)}

\* mutation of NearVector: nothing is answered when fewer than `limit`
\* records are held
NearVectorAllOrNothing(objs, q, limit) ==
    IF Len(objs) < limit THEN {<<>>}
    ELSE UNION {Nearest(objs, q, n) : n \in AnswerSizes(objs, limit)}

\* what near_vector(limit) may answer: the indices of the records
NearVector(objs, q, limit) ==
    UNION {Nearest(objs, q, n) : n \in AnswerSizes(objs, limit)}

\* mutation of FormatResults: the results are listed last first
FormatResultsReversed(objs, q, r) ==
    [i \in 1..Len(r) |->
        [content |-> objs[r[Len(r) + 1 - i]].content,
         source |-> objs[r[Len(r) + 1 - i]].source,
         chunk_index |-> objs[r[Len(r) + 1 - i]].chunk_index,
         score |-> 1 - Dist(objs[r[Len(r) + 1 - i]].vector, q)]]

\* the formatting loop over results.objects
FormatResults(objs, q, r) ==
    [i \in 1..Len(r) |->
        [content |-> objs[r[i]].content,
         source |-> objs[r[i]].source,
         chunk_index |-> objs[r[i]].chunk_index,
         score |-> 1 - Dist(objs[r[i]].vector, q)]]

\* ---- the arguments direct callers of the store pass ----
BatchTexts(n) == [i \in 1..n |-> <<Alphabet[i]>>]
BatchVectors(m) == [i \in 1..m |-> VectorAt(i)]
FullDicts(n) == [i \in 1..n |-> [source |-> "doc", chunk_index |-> i + 6]]
SourceDicts(n) == [i \in 1..n |-> [source |-> "doc"]]
BatchMetadata(n) ==
    {NoMetadata, MetadataList(FullDicts(n)), MetadataList(SourceDicts(n))}
        \cup (IF n > 0 THEN {MetadataList(FullDicts(n - 1))} ELSE {})

\* a caller calls store.add_documents(texts, embeddings, metadata)
AddDocuments ==
    /\ Idle
    /\ Live
    /\ \E n \in 0..MaxBatch, m \in 0..MaxBatch :
       \E metadata \in BatchMetadata(n), failAt \in 0..Min(n, m) :
        LET texts == BatchTexts(n)
            embeddings == BatchVectors(m)
            r == add_documents(objects, texts, embeddings, metadata, failAt)
        IN  /\ Len(r.objects) <= MaxObjects
            /\ call' = [op |-> "add_documents", texts |-> texts,
                        embeddings |-> embeddings, metadata |-> metadata]
            /\ objects' = r.objects
            /\ ret' = r.ret
            /\ io' = r.io
    /\ UNCHANGED <<collection_exists, store_vars, rag>>
    /\ UNCHANGED <<chunk_vars, race_vars, pipe_vars>>

\* a caller calls store.search(query_embedding, top_k)
Search ==
    /\ Idle
    /\ Live
    /\ \E v \in 1..Len(Vectors), top_k \in 0..MaxTopK :
        LET q == Vectors[v] IN
        /\ call' = [op |-> "search", query_embedding |-> q, top_k |-> top_k]
        /\ \/ \E r \in NearVector(objects, q, top_k) :
                /\ ret' = [Returned0 EXCEPT !.results = FormatResults(objects, q, r)]
                /\ io' = <<Event("near_vector", top_k, "", "ok")>>
           \/ /\ ret' = Raised(Error("WeaviateError", "unavailable"))
              /\ io' = <<Event("near_vector", top_k, "", "unavailable")>>
    /\ UNCHANGED <<service_vars, store_vars, rag>>
    /\ UNCHANGED <<chunk_vars, race_vars, pipe_vars>>

\* store.close(), or rag.close() which calls it, by a caller that still
\* holds the store or the pipeline
Close ==
    /\ Idle
    /\ Live
    /\ rag # "dropped"
    /\ client' = "closed"
    /\ ws_pc' = "closed"
    /\ rag' = IF rag = "ready" THEN "closed" ELSE rag
    /\ call' = [op |-> "close"]
    /\ ret' = Returned0
    /\ io' = <<Event("close", 0, "", "ok")>>
    /\ UNCHANGED <<service_vars, max_retries, attempt, last_error>>
    /\ UNCHANGED <<chunk_vars, race_vars, pipe_vars>>

\* ===================================================================
\* pipeline.py: RAGPipeline.__init__
\* ===================================================================
\* a caller constructs RAGPipeline(): `self.vector_store = WeaviateStore()`
ConstructPipeline ==
    /\ Idle
    /\ ~Live
    /\ rag' = "constructing"
    /\ call' = [op |-> "RAGPipeline"]
    /\ \E connected \in BOOLEAN : StoreInit(DefaultMaxRetries, connected)
    /\ UNCHANGED <<chunk_vars, race_vars, pipe_vars>>

\* WeaviateStore() returned: the rest of __init__ sets fields and returns
PipelineInitReturns ==
    /\ rag = "constructing"
    /\ ws_pc = "ready"
    /\ rag' = "ready"
    /\ ret' = Returned0
    /\ UNCHANGED <<service_vars, store_vars, call, io>>
    /\ UNCHANGED <<chunk_vars, race_vars, pipe_vars>>

\* mutation of PipelineInitRaises: __init__ catches the error and constructs
\* the store again
PipelineInitRetries ==
    /\ rag = "constructing"
    /\ ws_pc = "failed"
    /\ client = "open"
    /\ ws_pc' = LoopHead(0, max_retries)
    /\ attempt' = 0
    /\ UNCHANGED <<service_vars, client, max_retries, last_error, rag, call, ret, io>>
    /\ UNCHANGED <<chunk_vars, race_vars, pipe_vars>>

\* WeaviateStore() raised: __init__ has no handler, the error reaches the
\* caller of RAGPipeline()
PipelineInitRaises ==
    /\ rag = "constructing"
    /\ ws_pc = "failed"
    /\ rag' = "failed"
    /\ UNCHANGED <<service_vars, store_vars, call, ret, io>>
    /\ UNCHANGED <<chunk_vars, race_vars, pipe_vars>>

\* ===================================================================
\* Specifications of the store and of its construction
\* ===================================================================
\* Construction: callers construct WeaviateStore(max_retries) or RAGPipeline()
\* against a service that may or may not hold the collection yet, close what
\* they constructed, and construct again.
InitProvision == AppInit /\ ChunkIdle

NextProvision ==
    \/ ConstructStore
    \/ ConstructPipeline
    \/ ExistsCall
    \/ CreateCall
    \/ Sleep
    \/ RaiseConnectionError
    \/ PipelineInitReturns
    \/ PipelineInitRaises
    \/ Close

SpecProvision == InitProvision /\ [][NextProvision]_vars

\* the calls WeaviateStore() makes when the collection exists and the service
\* answers at once
FirstTryEvents ==
    <<Event("connect_to_local", 0, "", "ok"), Event("exists", 0, "", "ok"),
      Event("_create_collection", 0, "", "ok")>>

\* the state in which WeaviateStore() has returned a store
StoreConstructed ==
    /\ collection_exists = TRUE
    /\ objects = <<>>
    /\ client = "open"
    /\ max_retries = DefaultMaxRetries
    /\ attempt = 0
    /\ last_error = "None"
    /\ ws_pc = "ready"
    /\ ret = Returned0
    /\ io = FirstTryEvents

\* Use of a constructed store: add_documents, search, close.
InitStore ==
    /\ StoreConstructed
    /\ rag = "none"
    /\ config = DefaultConfig
    /\ file_paths = <<>>
    /\ next_path = 1
    /\ total_chunks = 0
    /\ call = [op |-> "WeaviateStore", max_retries |-> DefaultMaxRetries]
    /\ peers = NoPeers
    /\ ChunkIdle

NextStore ==
    \/ AddDocuments
    \/ Search
    \/ Close

SpecStore == InitStore /\ [][NextStore]_vars

\* ===================================================================
\* pipeline.py: ingest and query
\* ===================================================================
DefaultTopK == 5
FallbackMessage == "I couldn't find any relevant information to answer your question."

\* the configurations a pipeline runs with: two valid ones, and one whose
\* overlap is not below the chunk size
PipelineConfigs ==
    {DefaultConfig, [chunk_size |-> 3, chunk_overlap |-> 0],
     [chunk_size |-> 2, chunk_overlap |-> 2]}

\* the files on disk: load_document returns the text of a supported file and
\* raises ValueError for an unsupported one
Paths == {"good.txt", "bad.bin", "good2.txt", "empty.txt"}
Loadable(path) == path # "bad.bin"
FileText(path) ==
    CASE path = "good.txt" -> Letters(6)
      [] path = "good2.txt" -> TextOf(3, 1)
      [] OTHER -> <<>>

\* the embedding capability: a fixed function from texts to vectors
CharIndex(c) == CHOOSE i \in 1..Len(Alphabet) : Alphabet[i] = c
Embed(t) == IF t = <<>> THEN VectorAt(1) ELSE VectorAt(CharIndex(t[1]) + Len(t))

\* what the environment does to one ingest_document call: nothing, or the
\* embedding of chunk `at` fails, or the insert of chunk `at` fails
NoFault == [kind |-> "none", at |-> 0]
Faults == {NoFault} \cup {[kind |-> k, at |-> i] : k \in {"embed", "insert"}, i \in 1..2}

\* the result of a call that never returns
Hung == [Pending EXCEPT !.outcome = "hung"]

EmbedEvents(cs, n) == [i \in 1..n |-> Event("embed", i - 1, "", "ok")]

\* mutation of ChunkMetadata: chunk_index counts from 1
ChunkMetadataFromOne(path, n) ==
    MetadataList([i \in 1..n |-> [source |-> path, chunk_index |-> i]])

\* `[{"source": file_path, "chunk_index": i} for i in range(len(chunks))]`
ChunkMetadata(path, n) ==
    MetadataList([i \in 1..n |-> [source |-> path, chunk_index |-> i - 1]])

\* mutation of EmbedBatchFails: each chunk is inserted as soon as it is
\* embedded, so the chunks before the failing one are in the store
EmbedBatchFailsAfterInserts(objs, path, cs, at) ==
    LET done == SubSeq(cs, 1, at - 1)
        r == add_documents(objs, done, [i \in 1..(at - 1) |-> Embed(cs[i])],
                           ChunkMetadata(path, at - 1), 0)
    IN  [objects |-> r.objects,
         ret |-> Raised(Error("UpstreamFailure", "None")),
         io |-> EmbedEvents(cs, at - 1) \o r.io
                \o <<Event("embed", at - 1, "", "unavailable")>>]

\* embed_batch(chunks) raises at chunk `at`: ingest_document has no handler
\* and ends there, before add_documents
EmbedBatchFails(objs, path, cs, at) ==
    [objects |-> objs,
     ret |-> Raised(Error("UpstreamFailure", "None")),
     io |-> EmbedEvents(cs, at - 1)
            \o <<Event("embed", at - 1, "", "unavailable")>>]

\* ingest_document(file_path) on a store holding objs
ingest_document(objs, cfg, path, fault) ==
    IF ~Loadable(path)
    THEN [objects |-> objs, ret |-> Raised(Error("ValueError", "unsupported")),
          io |-> <<Event("load_document", 0, path, "unsupported")>>]
    ELSE
    LET loaded == <<Event("load_document", 0, path, "ok")>>
        c == chunk_text(FileText(path), cfg.chunk_size, cfg.chunk_overlap)
    IN  IF ~c.returned
        THEN [objects |-> objs, ret |-> Hung, io |-> loaded]
        ELSE
        LET cs == c.chunks
            n == Len(cs)
        IN  IF fault.kind = "embed" /\ fault.at <= n
            THEN LET f == EmbedBatchFails(objs, path, cs, fault.at)
                 IN  [objects |-> f.objects, ret |-> f.ret, io |-> loaded \o f.io]
            ELSE
            LET embeddings == [i \in 1..n |-> Embed(cs[i])]
                metadata == ChunkMetadata(path, n)
                r == add_documents(objs, cs, embeddings, metadata,
                                   IF fault.kind = "insert" THEN fault.at ELSE 0)
            IN  [objects |-> r.objects,
                 ret |-> IF r.ret.outcome = "raise" THEN r.ret
                         ELSE [Returned0 EXCEPT !.count = n],
                 io |-> loaded \o EmbedEvents(cs, n) \o r.io]

\* a fault that does not happen in the call (its chunk does not exist) is
\* the same as no fault
FaultApplies(cfg, path, fault) ==
    \/ fault = NoFault
    \/ /\ fault # NoFault
       /\ Loadable(path)
       /\ LET c == chunk_text(FileText(path), cfg.chunk_size, cfg.chunk_overlap)
          IN  c.returned /\ fault.at <= Len(c.chunks)

PipelineReady == Idle /\ Live /\ rag = "ready"

\* a caller calls rag.ingest_document(path)
IngestDocument ==
    /\ PipelineReady
    /\ \E path \in Paths, fault \in Faults :
        /\ FaultApplies(config, path, fault)
        /\ LET r == ingest_document(objects, config, path, fault)
           IN  /\ Len(r.objects) <= MaxObjects
               /\ call' = [op |-> "ingest_document", file_path |-> path]
               /\ objects' = r.objects
               /\ ret' = r.ret
               /\ io' = r.io
    /\ UNCHANGED <<collection_exists, store_vars, rag, pipe_vars, chunk_vars, race_vars>>

\* ---- ingest_multiple ----
\* the lists callers pass: distinct paths (the ingest command passes the
\* files a directory walk finds, each once), the empty list included
PathLists ==
    {paths \in UNION {[1..n -> Paths] : n \in 0..MaxPaths} :
        \A i, j \in DOMAIN paths : i # j => paths[i] # paths[j]}

\* a caller calls rag.ingest_multiple(file_paths): `total_chunks = 0`
IngestMultipleCall ==
    /\ PipelineReady
    /\ \E paths \in PathLists :
        /\ call' = [op |-> "ingest_multiple", file_paths |-> paths]
        /\ file_paths' = paths
    /\ next_path' = 1
    /\ total_chunks' = 0
    /\ ret' = Pending
    /\ io' = <<>>
    /\ UNCHANGED <<service_vars, store_vars, rag, config, chunk_vars, race_vars>>

IngestMultipleRunning == call.op = "ingest_multiple" /\ ret.outcome = "pending"

\* mutation of AfterIngest: the records a failed ingest_document left in the
\* store are added to the total
AfterIngestCountsPartial(total, r) ==
    [total_chunks |->
        IF r.ret.outcome = "return" THEN total + r.ret.count
        ELSE total + Len(SelectSeq(r.io, LAMBDA e : e.what = "insert" /\ e.result = "ok")),
     ret |-> IF r.ret.outcome = "hung" THEN Hung ELSE Pending]

\* mutation of AfterIngest: no try/except, the error of ingest_document ends
\* ingest_multiple
AfterIngestNoHandler(total, r) ==
    [total_chunks |-> IF r.ret.outcome = "return" THEN total + r.ret.count ELSE total,
     ret |-> IF r.ret.outcome = "return" THEN Pending ELSE r.ret]

\* the body of the for loop after ingest_document ended with r:
\* `total_chunks += chunks`, or `except Exception: ... continue`; a call that
\* never returns leaves ingest_multiple waiting
AfterIngest(total, r) ==
    [total_chunks |-> IF r.ret.outcome = "return" THEN total + r.ret.count ELSE total,
     ret |-> IF r.ret.outcome = "hung" THEN Hung ELSE Pending]

\* one round of `for path in file_paths`
IngestMultipleStep ==
    /\ IngestMultipleRunning
    /\ next_path <= Len(file_paths)
    /\ \E fault \in Faults :
        LET path == file_paths[next_path] IN
        /\ FaultApplies(config, path, fault)
        /\ LET r == ingest_document(objects, config, path, fault)
               after == AfterIngest(total_chunks, r)
           IN  /\ Len(r.objects) <= MaxObjects
               /\ objects' = r.objects
               /\ total_chunks' = after.total_chunks
               /\ ret' = after.ret
               /\ io' = io \o r.io
                        \o <<Event("ingest_document", r.ret.count, path,
                                   IF r.ret.outcome = "return" THEN "ok"
                                   ELSE r.ret.error.type)>>
    /\ next_path' = next_path + 1
    /\ UNCHANGED <<collection_exists, store_vars, rag, config, file_paths, call,
                   chunk_vars, race_vars>>

\* the loop is over: `return total_chunks`; the frame is gone
IngestMultipleReturn ==
    /\ IngestMultipleRunning
    /\ next_path > Len(file_paths)
    /\ ret' = [Returned0 EXCEPT !.count = total_chunks]
    /\ file_paths' = <<>>
    /\ next_path' = 1
    /\ total_chunks' = 0
    /\ UNCHANGED <<service_vars, store_vars, rag, config, call, io, chunk_vars, race_vars>>

\* ---- query ----
Questions == {<<>>, <<"A">>, <<"B">>}
Answers == {"generated answer", FallbackMessage}

\* mutation of NoResults: the check is left out
NoResultsIgnored(results) == FALSE

\* `if not results`
NoResults(results) == results = <<>>

\* the body of query(question, top_k)
QueryBody(question, top_k) ==
    LET q == Embed(question)
        embedded == <<Event("embed", 0, "", "ok")>>
        searched == embedded \o <<Event("near_vector", top_k, "", "ok")>>
    IN  \/ /\ ret' = Raised(Error("UpstreamFailure", "None"))
           /\ io' = <<Event("embed", 0, "", "unavailable")>>
        \/ /\ ret' = Raised(Error("WeaviateError", "unavailable"))
           /\ io' = embedded \o <<Event("near_vector", top_k, "", "unavailable")>>
        \/ \E r \in NearVector(objects, q, top_k) :
             LET results == FormatResults(objects, q, r) IN
             IF NoResults(results)
             THEN /\ ret' = [Returned0 EXCEPT !.answer = FallbackMessage,
                                              !.results = results]
                  /\ io' = searched
             ELSE \/ \E answer \in Answers :
                     /\ ret' = [Returned0 EXCEPT !.answer = answer,
                                                 !.results = results]
                     /\ io' = Append(searched, Event("generate", 0, "", "ok"))
                  \/ /\ ret' = [Raised(Error("UpstreamFailure", "None"))
                                   EXCEPT !.results = results]
                     /\ io' = Append(searched,
                                     Event("generate", 0, "", "unavailable"))

\* who calls rag.query: a direct caller with any top_k, query_command of
\* main.py and the /api/query handler of app.py with the default top_k
EntryPoints == {"direct", "cli", "http"}
TopKs(via) == IF via = "direct" THEN (1..MaxTopK) \cup {DefaultTopK} ELSE {DefaultTopK}
EmptyQuestionResponse == "Question cannot be empty"
\* the check the entry point makes itself before it calls the pipeline:
\* only the HTTP handler has one (`if not question: return ..., 400`)
HandlerRefuses(via, question) == via = "http" /\ question = <<>>

\* whether the entry point calls rag.close() once rag.query has ended:
\* query_command closes in a `finally`; the HTTP handler's rag.close() is the
\* statement after rag.query(question) inside the try, skipped when query
\* raised; a direct caller is left with the pipeline
HandlerCloses(via, outcome) ==
    \/ via = "cli"
    \/ via = "http" /\ outcome = "return"

\* rag.query(question, top_k) is called, directly or by an entry point:
\* retrieve (embed_query, then search), the check for no results,
\* generate_answer; then the entry point closes the pipeline or returns
\* without closing it, and its `rag` is gone
Query ==
    /\ PipelineReady
    /\ \E via \in EntryPoints, question \in Questions : \E top_k \in TopKs(via) :
        /\ call' = [op |-> "query", via |-> via, question |-> question,
                    top_k |-> top_k]
        /\ \/ /\ HandlerRefuses(via, question)
              /\ ret' = [Returned0 EXCEPT !.answer = EmptyQuestionResponse]
              /\ io' = <<>>
              /\ UNCHANGED <<client, ws_pc, rag>>
           \/ /\ ~HandlerRefuses(via, question)
              /\ QueryBody(question, top_k)
              /\ IF via = "direct"
                 THEN UNCHANGED <<client, ws_pc, rag>>
                 ELSE IF HandlerCloses(via, ret'.outcome)
                 THEN /\ client' = "closed"
                      /\ ws_pc' = "closed"
                      /\ rag' = "closed"
                 ELSE /\ rag' = "dropped"
                      /\ UNCHANGED <<client, ws_pc>>
    /\ UNCHANGED <<service_vars, max_retries, attempt, last_error, pipe_vars,
                   chunk_vars, race_vars>>

\* Use of a constructed pipeline: ingest, query, close.
InitPipeline ==
    /\ StoreConstructed
    /\ rag = "ready"
    /\ config \in PipelineConfigs
    /\ file_paths = <<>>
    /\ next_path = 1
    /\ total_chunks = 0
    /\ call = [op |-> "RAGPipeline"]
    /\ peers = NoPeers
    /\ ChunkIdle

NextPipeline ==
    \/ IngestDocument
    \/ IngestMultipleCall
    \/ IngestMultipleStep
    \/ IngestMultipleReturn
    \/ Query
    \/ Close

SpecPipeline == InitPipeline /\ [][NextPipeline]_vars

\* ===================================================================
\* Properties of chunk_text (checked under SpecChunk)
\* ===================================================================
Returned == ct_pc = "return"
ValidParams == chunk_size > 0 /\ 0 <= chunk_overlap /\ chunk_overlap < chunk_size
step == chunk_size - chunk_overlap
ABCDEFGHIJ == Letters(10)
C6_Input == text = ABCDEFGHIJ /\ chunk_size = 4 /\ chunk_overlap = 1

\* C6 (as stated): chunk_text("ABCDEFGHIJ", 4, 1) returns exactly the three
\* chunks ABCD, DEFG, GHIJ, and nothing is emitted after the window that
\* reaches the end of the text.
C6_ThreeChunks ==
    (C6_Input /\ Returned) =>
        ct_result = <<SubSeq(ABCDEFGHIJ, 1, 4), SubSeq(ABCDEFGHIJ, 4, 7),
                      SubSeq(ABCDEFGHIJ, 7, 10)>>

\* C6 (amended): chunk_text("ABCDEFGHIJ", 4, 1) returns the four chunks ABCD,
\* DEFG, GHIJ, J: the window starts are 0, 3, 6 and 9, every window is
\* clamped to the text, and the window at 9 is emitted after the window at 6
\* has reached the end of the text.
C6_FourChunks ==
    /\ (C6_Input /\ Returned) =>
           ct_result = <<SubSeq(ABCDEFGHIJ, 1, 4), SubSeq(ABCDEFGHIJ, 4, 7),
                         SubSeq(ABCDEFGHIJ, 7, 10), SubSeq(ABCDEFGHIJ, 10, 10)>>
    /\ (C6_Input /\ ct_pc = "loop") =>
           /\ start \in {0, 3, 6, 9, 12}
           /\ start = 3 * Len(chunks)

C6_Witness == C6_Input /\ Returned /\ Len(ct_result) = 4

\* the windows text[s : min(s + chunk_size, len(text))] for s = 0, step,
\* 2*step, ... < len(text), left to right
NumWindows == ((Len(text) - 1) \div step) + 1
ExpectedWindows ==
    [k \in 1..NumWindows |->
        SubSeq(text, (k - 1) * step + 1,
               Min((k - 1) * step + chunk_size, Len(text)))]
C7_Pre == ValidParams /\ Len(text) > chunk_size

\* C7: for valid parameters and a text longer than chunk_size, chunk_text
\* terminates, and what it returns is exactly the windows
\* text[s : min(s + chunk_size, len(text))] for s = 0, step, 2*step, ...,
\* one for every such s < len(text), in left-to-right order.
C7_ExactWindows ==
    /\ [](C7_Pre /\ Returned => ct_result = ExpectedWindows)
    /\ (C7_Pre ~> Returned)

C7_Witness ==
    /\ C7_Pre /\ Returned
    /\ chunk_overlap > 0
    /\ Len(ct_result) >= 3
    /\ Len(ct_result[Len(ct_result)]) < chunk_size

\* chunk k of a valid call is the window that starts at offset (k-1)*step
Offset(k) == (k - 1) * step
\* the first chunk followed by every later chunk without its first
\* chunk_overlap characters
RECURSIVE MergeFrom(_, _, _)
MergeFrom(cs, k, overlap) ==
    IF k > Len(cs) THEN <<>>
    ELSE SubSeq(cs[k], overlap + 1, Len(cs[k])) \o MergeFrom(cs, k + 1, overlap)
Merge(cs, overlap) ==
    IF cs = <<>> THEN <<>> ELSE cs[1] \o MergeFrom(cs, 2, overlap)
Covered(i) ==
    \E k \in 1..Len(ct_result) :
        /\ Offset(k) < i
        /\ i <= Offset(k) + Len(ct_result[k])
        /\ ct_result[k][i - Offset(k)] = text[i]

\* C8: for every text and valid (chunk_size, chunk_overlap), every character
\* position of text lies in at least one returned chunk, and the first chunk
\* followed by each later chunk without its first chunk_overlap characters
\* is text.
C8_Reconstruct ==
    (ValidParams /\ Returned) =>
        /\ \A i \in 1..Len(text) : Covered(i)
        /\ Merge(ct_result, chunk_overlap) = text

C8_Witness ==
    /\ ValidParams /\ Returned
    /\ chunk_overlap >= 2
    /\ Len(ct_result) >= 3
    /\ Len(ct_result[Len(ct_result)]) < chunk_overlap
    /\ Merge(ct_result, chunk_overlap) = text

\* the substring text[a : a + len] spans the boundary between chunk k and
\* chunk k + 1: the end of chunk k or the start of chunk k + 1 lies strictly
\* inside it
SpansBoundary(a, len, k) ==
    \E b \in {Offset(k) + Len(ct_result[k]), Offset(k + 1)} :
        a < b /\ b < a + len
ContainedIn(a, len, m) ==
    /\ Offset(m) <= a
    /\ a + len <= Offset(m) + Len(ct_result[m])
    /\ SubSeq(ct_result[m], a - Offset(m) + 1, a - Offset(m) + len)
         = SubSeq(text, a + 1, a + len)

\* C9: for valid parameters, every substring of text of length <=
\* chunk_overlap that spans a boundary between two consecutive chunks is
\* entirely contained in at least one returned chunk.
C9_BoundarySubstrings ==
    (ValidParams /\ Returned) =>
        \A len \in 1..chunk_overlap : \A a \in 0..(Len(text) - len) :
            \A k \in 1..(Len(ct_result) - 1) :
                SpansBoundary(a, len, k) =>
                    \E m \in 1..Len(ct_result) : ContainedIn(a, len, m)

C9_Witness ==
    /\ ValidParams /\ Returned
    /\ Len(ct_result) >= 3
    /\ \E len \in 1..chunk_overlap : \E a \in 0..(Len(text) - len) :
        \E k \in 1..(Len(ct_result) - 1) :
            /\ SpansBoundary(a, len, k)
            /\ ~ContainedIn(a, len, k)
            /\ ContainedIn(a, len, k + 1)

\* C10: chunk_text of the empty text returns the empty sequence, and of a
\* non-empty text with len(text) <= chunk_size returns exactly [text] without
\* entering the loop, whatever chunk_overlap is.
C10_ShortInputs ==
    /\ (Returned /\ text = <<>>) => ct_result = <<>>
    /\ (Returned /\ text # <<>> /\ Len(text) <= chunk_size) => ct_result = <<text>>
    /\ (text = <<>> \/ Len(text) <= chunk_size) => ct_pc # "loop"

C10_Witness ==
    /\ Returned
    /\ text # <<>>
    /\ Len(text) = chunk_size
    /\ chunk_overlap >= chunk_size
    /\ ct_result = <<text>>

\* ===================================================================
\* Properties of WeaviateStore's construction (checked under SpecProvision)
\* ===================================================================
Constructing == call.op \in {"WeaviateStore", "RAGPipeline"}
\* the calls of _create_collection so far, each with "ok" or its failure
Attempts == Where(io, "_create_collection")
Sleeps == Where(io, "sleep")
AttemptsAndSleeps ==
    SelectSeq(io, LAMBDA e : e.what \in {"_create_collection", "sleep"})
FailedUpTo(k) == \A i \in 1..k : Attempts[i].result # "ok"

Exhausted == Constructing /\ ws_pc = "failed" /\ client = "open"

\* C4: for every max_retries >= 1, when all max_retries attempts fail the
\* construction fails with a ConnectionError carrying the failure of the last
\* attempt, after exactly max_retries attempts and no further one; out of
\* RAGPipeline() the same error reaches the caller, and the store is not
\* constructed again.
C4_Exhaustion ==
    /\ Constructing => Len(Attempts) <= max_retries
    /\ (Constructing /\ max_retries >= 1 /\ Len(Attempts) = max_retries
            /\ FailedUpTo(max_retries)) =>
           ws_pc \in {"sleep", "raise", "failed"}
    /\ (Exhausted /\ max_retries >= 1) =>
           /\ Len(Attempts) = max_retries
           /\ FailedUpTo(max_retries)
           /\ ret = Raised(Error("ConnectionError", Attempts[max_retries].result))
    /\ (call.op = "RAGPipeline" /\ rag = "failed" /\ client = "open") =>
           /\ Exhausted
           /\ max_retries = DefaultMaxRetries
           /\ Len(Where(io, "connect_to_local")) = 1
           /\ ret.outcome = "raise"
           /\ ret.error.type = "ConnectionError"

C4_Witness ==
    /\ call.op = "RAGPipeline"
    /\ rag = "failed"
    /\ Exhausted
    /\ Len(Attempts) = 5
    /\ Attempts[4].result # Attempts[5].result
    /\ ret.error = Error("ConnectionError", Attempts[5].result)

\* ===================================================================
\* Properties of the store's operations (checked under SpecStore)
\* ===================================================================
Mismatched(c) == c.op = "add_documents" /\ Len(c.texts) # Len(c.embeddings)

\* C5: add_documents with len(texts) # len(vectors) fails with a validation
\* error before any insert is attempted, and the call leaves the records of
\* the store unchanged.
C5_LengthMismatch ==
    /\ [](Mismatched(call) =>
            /\ ret = Raised(Error("ValueError", "None"))
            /\ Where(io, "insert") = <<>>)
    /\ [][Mismatched(call') => objects' = objects]_vars

C5_Witness ==
    /\ Mismatched(call)
    /\ Len(call.texts) = 2
    /\ Len(call.embeddings) = 1
    /\ ret.error.type = "ValueError"
    /\ Len(objects) >= 2

\* ===================================================================
\* Properties of the pipeline (checked under SpecPipeline)
\* ===================================================================
Generations == Where(io, "generate")
RetrievalReturned ==
    /\ call.op = "query"
    /\ \E i \in 1..Len(io) : io[i].what = "near_vector" /\ io[i].result = "ok"

\* C1: whenever retrieval returns an empty sequence, query returns the fixed
\* "no relevant information" message and the generation capability is not
\* called during that query; when retrieval returns a non-empty sequence the
\* generation capability is called.
C1_EmptyRetrieval ==
    RetrievalReturned =>
        IF ret.results = <<>>
        THEN /\ ret.outcome = "return"
             /\ ret.answer = FallbackMessage
             /\ Generations = <<>>
        ELSE Len(Generations) = 1

C1_Witness ==
    /\ RetrievalReturned
    /\ ret.results = <<>>
    /\ ret.outcome = "return"
    /\ ret.answer = FallbackMessage
    /\ Generations = <<>>

IngestCalls == Where(io, "ingest_document")
\* the sum of the counts of the ingest_document calls that returned
RECURSIVE SumReturned(_)
SumReturned(events) ==
    IF events = <<>> THEN 0
    ELSE (IF Head(events).result = "ok" THEN Head(events).n ELSE 0)
         + SumReturned(Tail(events))
ChunkCount(path) ==
    Len(chunk_text(FileText(path), config.chunk_size, config.chunk_overlap).chunks)

\* C2: ingest_multiple never raises when ingest_document fails for some
\* paths: each failure is skipped, every path is still processed in order,
\* and the value returned is the sum of the chunk counts of exactly the paths
\* whose ingest_document succeeded.
C2_BatchTolerance ==
    call.op = "ingest_multiple" =>
        /\ ret.outcome # "raise"
        /\ \A i \in 1..Len(IngestCalls) :
              /\ IngestCalls[i].str = call.file_paths[i]
              /\ IngestCalls[i].result = "ok" =>
                    IngestCalls[i].n = ChunkCount(call.file_paths[i])
        /\ ret.outcome = "pending" =>
              /\ Len(IngestCalls) = next_path - 1
              /\ total_chunks = SumReturned(IngestCalls)
        /\ ret.outcome = "return" =>
              /\ Len(IngestCalls) = Len(call.file_paths)
              /\ ret.count = SumReturned(IngestCalls)

C2_Witness ==
    /\ call.op = "ingest_multiple"
    /\ call.file_paths = <<"good.txt", "bad.bin", "good2.txt">>
    /\ ret.outcome = "return"
    /\ IngestCalls[1].result = "ok"
    /\ IngestCalls[2].result = "ValueError"
    /\ IngestCalls[3].result = "ok"
    /\ ret.count = ChunkCount("good.txt") + ChunkCount("good2.txt")
    /\ ret.count = 3

\* ===================================================================
\* chunk_text on an invalid configuration (checked under SpecChunk)
\* ===================================================================
\* the configuration was refused with an error (no statement of chunk_text
\* or of RAGPipeline.__init__ does this)
Rejected == ct_pc = "raise"
C11_Pre == chunk_overlap >= chunk_size /\ Len(text) > chunk_size

\* C11 (as stated): when chunk_overlap >= chunk_size and the text is longer
\* than chunk_size, chunk_text does not loop forever: the call is rejected
\* with a configuration error, or every iteration of the window loop moves
\* start forward and the call returns.
C11_NoInfiniteLoop ==
    /\ [][(C11_Pre /\ ct_pc = "loop" /\ ct_pc' = "loop") => start' > start]_vars
    /\ (C11_Pre ~> (Returned \/ Rejected))

\* ===================================================================
\* Properties of search and add_documents (checked under SpecStore)
\* ===================================================================
SearchReturned == call.op = "search" /\ ret.outcome = "return"
\* the service answered the near_vector call of the running search
NearVectorAnswered ==
    /\ call.op = "search"
    /\ \E i \in 1..Len(io) : io[i].what = "near_vector" /\ io[i].result = "ok"
Scores == [i \in 1..Len(ret.results) |-> ret.results[i].score]
\* the results are records of the store, each listed once, with
\* score = 1 - distance, in the order r
ResultsAre(r) ==
    /\ \A i, j \in DOMAIN r : i # j => r[i] # r[j]
    /\ \A i \in DOMAIN r :
          /\ ret.results[i].content = objects[r[i]].content
          /\ ret.results[i].source = objects[r[i]].source
          /\ ret.results[i].chunk_index = objects[r[i]].chunk_index
          /\ ret.results[i].score = 1 - Dist(objects[r[i]].vector, call.query_embedding)

C13_EmptyWhenFewer ==
    (NearVectorAnswered /\ (objects = <<>> \/ Len(objects) < call.top_k)) =>
        /\ ret.outcome = "return"
        /\ ret.results = <<>>

\* C13 (amended): a collection smaller than top_k is no error. On an empty
\* collection search returns the empty sequence for every top_k >= 0; on a
\* collection of m < top_k records it returns exactly those m records, not
\* the empty sequence. search fails only when the near_vector call fails.
C13_FewerThanTopK ==
    /\ NearVectorAnswered =>
          /\ ret.outcome = "return"
          /\ objects = <<>> => ret.results = <<>>
          /\ Len(objects) < call.top_k =>
                /\ Len(ret.results) = Len(objects)
                /\ \E r \in [1..Len(ret.results) -> 1..Len(objects)] : ResultsAre(r)
    /\ (call.op = "search" /\ ret.outcome = "raise") =>
          /\ ~NearVectorAnswered
          /\ io[Len(io)].what = "near_vector"
          /\ io[Len(io)].result \in Failures

C13_Witness ==
    /\ SearchReturned
    /\ call.top_k = 2
    /\ Len(objects) = 1
    /\ Len(ret.results) = 1

\* C14 (as stated): every result returned by search has a score in the
\* closed range [0, 1].
C14_ScoreInUnitRange ==
    SearchReturned => \A i \in 1..Len(ret.results) : 0 <= Scores[i] /\ Scores[i] <= 1

AddReturned(c, r) == c.op = "add_documents" /\ r.outcome = "return"
AddFailedAtInsert(c, r) ==
    c.op = "add_documents" /\ r.outcome = "raise" /\ r.error.type = "WeaviateError"
Inserts(events) == Where(events, "insert")

\* C15: when add_documents succeeds it has inserted exactly one record per
\* (text, vector) pair, in input order, after the records already stored,
\* and it returns len(texts) identifiers, the i-th being the one the store
\* assigned to the i-th pair.
C15_OneRecordPerPair ==
    [][AddReturned(call', ret') =>
        LET n == Len(call'.texts)
            old == Len(objects)
        IN  /\ Len(call'.embeddings) = n
            /\ Len(objects') = old + n
            /\ SubSeq(objects', 1, old) = objects
            /\ Len(Inserts(io')) = n
            /\ Len(ret'.ids) = n
            /\ \A i \in 1..n :
                  /\ objects'[old + i].content = call'.texts[i]
                  /\ objects'[old + i].vector = call'.embeddings[i]
                  /\ ret'.ids[i] = objects'[old + i].uuid
                  /\ \A k \in 1..(old + n) : k # old + i => objects'[k].uuid # ret'.ids[i]
    ]_vars

C15_Witness ==
    /\ AddReturned(call, ret)
    /\ Len(call.texts) = 2
    /\ Len(objects) = 3
    /\ ret.ids = <<objects[2].uuid, objects[3].uuid>>
    /\ objects[2].content = call.texts[1]
    /\ objects[3].content = call.texts[2]
    /\ call.texts[1] # call.texts[2]

\* C16: add_documents is not transactional. When the insert of item j fails
\* the error reaches the caller, items 0..j-1 stay in the store, item j and
\* the later ones are not inserted, and no identifiers are returned.
C16_NoRollback ==
    [][AddFailedAtInsert(call', ret') =>
        LET ins == Inserts(io')
            j == Len(ins) - 1
            old == Len(objects)
        IN  /\ Len(ins) >= 1
            /\ ins[j + 1].result # "ok"
            /\ ins[j + 1].n = j
            /\ \A i \in 1..j : ins[i].result = "ok"
            /\ Len(objects') = old + j
            /\ SubSeq(objects', 1, old) = objects
            /\ \A i \in 1..j :
                  /\ objects'[old + i].content = call'.texts[i]
                  /\ objects'[old + i].vector = call'.embeddings[i]
            /\ ret'.ids = <<>>
    ]_vars

C16_Witness ==
    /\ AddFailedAtInsert(call, ret)
    /\ Len(call.texts) = 2
    /\ Len(Inserts(io)) = 2
    /\ Inserts(io)[1].result = "ok"
    /\ Inserts(io)[2].result = "unavailable"
    /\ Len(objects) = 2
    /\ objects[2].content = call.texts[1]
    /\ ret.ids = <<>>

\* ===================================================================
\* Properties of ingest_document (checked under SpecPipeline)
\* ===================================================================
\* Step predicates: an ingest_document call ended in this step, called
\* directly or by ingest_multiple
DirectIngestEnded == call'.op = "ingest_document" /\ ret'.outcome # "pending"
BatchIngestEnded ==
    /\ call.op = "ingest_multiple"
    /\ call'.op = "ingest_multiple"
    /\ next_path' = next_path + 1
LastEvent(events) == events[Len(events)]
\* the calls the ingest_document of this step made
CallsOfIngest ==
    IF call'.op = "ingest_document" THEN io'
    ELSE SubSeq(io', Len(io) + 1, Len(io') - 1)
\* the store gained exactly the chunks of path, in order, with their metadata
GainedChunksOf(path) ==
    LET cs == chunk_text(FileText(path), config.chunk_size, config.chunk_overlap).chunks
        old == Len(objects)
    IN  /\ Len(objects') = old + Len(cs)
        /\ SubSeq(objects', 1, old) = objects
        /\ \A i \in 1..Len(cs) :
              /\ objects'[old + i].content = cs[i]
              /\ objects'[old + i].source = path
              /\ objects'[old + i].chunk_index = i - 1
        /\ FileText(path) = <<>> => objects' = objects

\* C17: when every step succeeds, ingest_document(path) returns n, the number
\* of chunks chunk_text produces for the loaded text, and the store gains
\* exactly n records, the i-th with content = chunk i, source = path and
\* chunk_index = i (from 0); for an empty text n = 0 and nothing is inserted.
C17_IngestRecords ==
    [][/\ (DirectIngestEnded /\ ret'.outcome = "return") =>
            /\ ret'.count = ChunkCount(call'.file_path)
            /\ FileText(call'.file_path) = <<>> => ret'.count = 0
            /\ GainedChunksOf(call'.file_path)
       /\ (BatchIngestEnded /\ LastEvent(io').result = "ok") =>
            /\ LastEvent(io').n = ChunkCount(LastEvent(io').str)
            /\ GainedChunksOf(LastEvent(io').str)
    ]_vars

C17_Witness ==
    /\ call.op = "ingest_document"
    /\ call.file_path = "good.txt"
    /\ config = DefaultConfig
    /\ ret.outcome = "return"
    /\ ret.count = 2
    /\ Len(objects) = 3
    /\ objects[1].source = "good2.txt"
    /\ objects[2] = [content |-> Letters(4), source |-> "good.txt", chunk_index |-> 0,
                     vector |-> Embed(Letters(4)), uuid |-> 2]
    /\ objects[3].content = SubSeq(Letters(6), 4, 6)
    /\ objects[3].chunk_index = 1

\* the calls of one ingest_document that raised: the failing call is the
\* last one, and the steps are in order load, embed (all chunks), insert
FirstErrorAborts(events) ==
    /\ events # <<>>
    /\ LastEvent(events).result # "ok"
    /\ \A i \in 1..(Len(events) - 1) : events[i].result = "ok"
    /\ events[1].what = "load_document"
    /\ \A i, j \in 1..Len(events) :
          (events[i].what = "insert" /\ events[j].what = "embed") => j < i
    /\ LastEvent(events).what = "load_document" =>
          /\ Len(events) = 1
          /\ objects' = objects
    /\ LastEvent(events).what = "embed" =>
          /\ Where(events, "insert") = <<>>
          /\ objects' = objects
    /\ LastEvent(events).what = "insert" =>
          Len(objects') = Len(objects) + LastEvent(events).n

\* C18: ingest_document surfaces the first error of any step and stops: no
\* step runs after the failing one (a load failure: no embedding, no insert;
\* an embedding failure at any chunk: no insert at all, the chunks are all
\* embedded before the first insert), and no chunk count is returned.
C18_FirstErrorAborts ==
    [][/\ (DirectIngestEnded /\ ret'.outcome = "raise") =>
            /\ ret'.count = 0
            /\ ret'.error.type # "None"
            /\ FirstErrorAborts(CallsOfIngest)
       /\ (BatchIngestEnded /\ LastEvent(io').result # "ok") =>
            /\ LastEvent(io').n = 0
            /\ total_chunks' = total_chunks
            /\ ret'.outcome = "hung" \/ FirstErrorAborts(CallsOfIngest)
    ]_vars

C18_Witness ==
    /\ call.op = "ingest_document"
    /\ call.file_path = "good.txt"
    /\ ret = Raised(Error("UpstreamFailure", "None"))
    /\ Len(Where(io, "embed")) = 2
    /\ Where(io, "embed")[1].result = "ok"
    /\ Where(io, "embed")[2].result = "unavailable"
    /\ Where(io, "insert") = <<>>
    /\ objects = <<>>

\* ===================================================================
\* Properties of query (checked under SpecPipeline)
\* ===================================================================
EmptyQuestionAsked == call.op = "query" /\ call.question = <<>>
RefusedAsInvalid ==
    \/ ret.outcome = "raise" /\ ret.error.type = "ValidationError"
    \/ ret.outcome = "return" /\ ret.answer = EmptyQuestionResponse

\* C19 (as stated): on every path that reaches the pipeline (direct call,
\* CLI query command, HTTP handler) an empty question is refused with a
\* validation error before any embedding, search or generation call is made.
C19_EmptyQuestionRejected ==
    EmptyQuestionAsked => (RefusedAsInvalid /\ io = <<>>)

\* ===================================================================
\* Idempotence of provisioning (checked under SpecProvision)
\* ===================================================================
Creates == Where(io, "create")
\* the collection was there before the running construction began
ExistedBefore ==
    /\ Constructing
    /\ collection_exists
    /\ \A i \in 1..Len(Creates) : Creates[i].result # "ok"
\* this step is a create call the service carried out
CreateSucceeds ==
    /\ Len(Where(io', "create")) = Len(Creates) + 1
    /\ LastEvent(Where(io', "create")).result = "ok"

\* C20: provisioning is idempotent. A construction that finds the collection
\* issues no create call and raises no error on account of it (it returns as
\* soon as the service answers the exists call); a create is carried out
\* only while the collection does not exist, the collection never goes away,
\* and no construction changes the stored records.
C20_Idempotent ==
    /\ [](ExistedBefore =>
            /\ Creates = <<>>
            /\ \A i \in 1..Len(io) : io[i].result # "already_exists"
            /\ \A i \in 1..Len(Attempts) : Attempts[i].result \in {"ok"} \cup Failures
            /\ \A i \in 1..Len(io) :
                  (io[i].what = "exists" /\ io[i].result = "ok") =>
                      /\ i = Len(io) - 1
                      /\ io[i + 1] = Event("_create_collection", io[i].n, "", "ok")
                      /\ ws_pc = "ready"
                      /\ ret.outcome = "return")
    /\ [][/\ collection_exists => collection_exists'
          /\ CreateSucceeds => (~collection_exists /\ collection_exists')
          /\ objects' = objects]_vars

C20_Witness ==
    /\ call.op = "WeaviateStore"
    /\ ExistedBefore
    /\ objects # <<>>
    /\ ws_pc = "ready"
    /\ ret.outcome = "return"
    /\ Len(Attempts) = 2
    /\ Attempts[1].result = "not_ready"

\* ===================================================================
\* The wait after the last attempt (checked under SpecProvision)
\* ===================================================================
\* the retry loop is over: the ConnectionError is about to be raised or was
LoopOver == Constructing /\ client = "open" /\ ws_pc \in {"raise", "failed"}

\* C21 (as stated): a backoff wait happens only between a failed attempt and
\* the attempt that follows it; when the last permitted attempt fails the
\* ConnectionError is raised without a further wait, so a run in which all
\* attempts fail makes max_retries attempts and max_retries - 1 waits.
C21_NoWaitAfterLastAttempt ==
    (LoopOver /\ max_retries >= 1) =>
        /\ Len(Attempts) = max_retries
        /\ Len(Sleeps) = max_retries - 1
        /\ LastEvent(AttemptsAndSleeps).what = "_create_collection"

\* ===================================================================
\* Partial inserts under ingest_multiple (checked under SpecPipeline)
\* ===================================================================
InsertedOk(events) == SelectSeq(events, LAMBDA e : e.what = "insert" /\ e.result = "ok")
\* the inserts that failed after at least one record of the same document
\* had been inserted (the event carries the index j of the failing item)
FailedPartway(events) ==
    SelectSeq(events, LAMBDA e : e.what = "insert" /\ e.result # "ok" /\ e.n >= 1)
RECURSIVE SumN(_)
SumN(events) == IF events = <<>> THEN 0 ELSE Head(events).n + SumN(Tail(events))

\* C23: for every ingest_multiple call the number of records inserted during
\* the call is >= the returned total, with equality exactly when no
\* add_documents call failed partway: a document whose insertion fails after
\* j records leaves those j records stored and adds 0 to the total.
C23_InsertedAtLeastTotal ==
    /\ [](call.op = "ingest_multiple" =>
            /\ Len(InsertedOk(io)) >= total_chunks
            /\ ret.outcome = "return" =>
                  /\ Len(InsertedOk(io)) >= ret.count
                  /\ Len(InsertedOk(io)) = ret.count + SumN(FailedPartway(io))
                  /\ (Len(InsertedOk(io)) = ret.count) <=> (FailedPartway(io) = <<>>))
    /\ [][BatchIngestEnded =>
            /\ Len(objects') = Len(objects) + Len(InsertedOk(CallsOfIngest))
            /\ SubSeq(objects', 1, Len(objects)) = objects
            /\ (LastEvent(io').result = "WeaviateError") =>
                  /\ Len(objects') = Len(objects) + LastEvent(CallsOfIngest).n
                  /\ total_chunks' = total_chunks
       ]_vars

C23_Witness ==
    /\ call.op = "ingest_multiple"
    /\ call.file_paths = <<"good.txt", "good2.txt">>
    /\ ret.outcome = "return"
    /\ ret.count = 1
    /\ IngestCalls[1].result = "WeaviateError"
    /\ Len(FailedPartway(io)) = 1
    /\ Len(InsertedOk(io)) = 2
    /\ Len(objects) = 2
    /\ objects[1].source = "good.txt"
    /\ objects[2].source = "good2.txt"

\* ===================================================================
\* Release of the connection (checked under SpecProvision)
\* ===================================================================
\* nothing refers to the store any more: its constructor raised, or the
\* request handler that constructed the pipeline has returned
Unreachable == ws_pc = "failed" \/ rag = "dropped"

\* C24 (as stated): no connection is leaked. On every exit path the
\* connection opened by the constructor has been closed by the time nothing
\* refers to the store any more: when provisioning exhausts its retries
\* inside the constructor, and when the query of a CLI command or of an HTTP
\* request handler raises.
C24_NoLeak == Unreachable => client # "open"

\* ===================================================================
\* weaviate_store.py: two constructors at the same time
\* ===================================================================
\* Two WeaviateStore clients (one pipeline per HTTP request, app.py) run
\* _create_collection_with_retry against the same service. Each exists,
\* create and sleep call is one step; the steps of the two interleave.
Peers == {1, 2}
RaceRetries == 1..(MaxRetries + 1)
\* the failure the service answers a call of either constructor with, when
\* it is not available
RaceFailures == {"unavailable"}

\* a constructor after connect_to_local returned, at the head of the loop
PeerStart(m) ==
    [pc |-> LoopHead(0, m), attempt |-> 0, last_error |-> "None",
     max_retries |-> m, outcome |-> "pending",
     io |-> <<Event("connect_to_local", 0, "", "ok")>>]

\* the except clause: last_error = e, then the sleep
PeerFails(p, what, e) ==
    peers' = [peers EXCEPT ![p].last_error = e,
                           ![p].pc = "sleep",
                           ![p].io = @ \o <<Event(what, peers[p].attempt, "", e),
                                            Event("_create_collection",
                                                  peers[p].attempt, "", e)>>]
\* _create_collection returned: the loop and the constructor return
PeerReturns(p, what) ==
    peers' = [peers EXCEPT ![p].pc = "ready",
                           ![p].outcome = "return",
                           ![p].io = @ \o <<Event(what, peers[p].attempt, "", "ok"),
                                            Event("_create_collection",
                                                  peers[p].attempt, "", "ok")>>]

\* `if self.client.collections.exists(self.class_name): return`
PeerExists(p) ==
    /\ peers[p].pc = "exists"
    /\ \/ /\ collection_exists
          /\ PeerReturns(p, "exists")
       \/ /\ ~collection_exists
          /\ peers' = [peers EXCEPT ![p].pc = "create",
                          ![p].io = Append(@, Event("exists", peers[p].attempt, "", "ok"))]
       \/ \E e \in RaceFailures : PeerFails(p, "exists", e)
    /\ UNCHANGED collection_exists

\* mutation of PeerCreate: the error of a create that finds the collection
\* is not caught by the retry loop, the constructor raises it
PeerCreateNoRetry(p) ==
    /\ peers[p].pc = "create"
    /\ \/ /\ ~collection_exists
          /\ collection_exists' = TRUE
          /\ PeerReturns(p, "create")
       \/ /\ collection_exists
          /\ peers' = [peers EXCEPT ![p].pc = "failed", ![p].outcome = "raise",
                          ![p].last_error = "already_exists",
                          ![p].io = Append(@, Event("create", peers[p].attempt, "",
                                                    "already_exists"))]
          /\ UNCHANGED collection_exists
       \/ /\ \E e \in RaceFailures : PeerFails(p, "create", e)
          /\ UNCHANGED collection_exists

\* `self.client.collections.create(...)`: the service creates the collection,
\* or refuses because it exists by now, or fails
PeerCreate(p) ==
    /\ peers[p].pc = "create"
    /\ \/ /\ ~collection_exists
          /\ collection_exists' = TRUE
          /\ PeerReturns(p, "create")
       \/ /\ collection_exists
          /\ PeerFails(p, "create", "already_exists")
          /\ UNCHANGED collection_exists
       \/ /\ \E e \in RaceFailures : PeerFails(p, "create", e)
          /\ UNCHANGED collection_exists

\* `time.sleep(wait_time)`, then the next round of the for loop
PeerSleep(p) ==
    /\ peers[p].pc = "sleep"
    /\ peers' = [peers EXCEPT
                    ![p].io = Append(@, Event("sleep", WaitTime(peers[p].attempt), "", "ok")),
                    ![p].attempt = @ + 1,
                    ![p].pc = LoopHead(peers[p].attempt + 1, peers[p].max_retries)]
    /\ UNCHANGED collection_exists

\* `raise ConnectionError(...)`
PeerRaise(p) ==
    /\ peers[p].pc = "raise"
    /\ peers' = [peers EXCEPT ![p].pc = "failed", ![p].outcome = "raise"]
    /\ UNCHANGED collection_exists

RaceUnchanged == UNCHANGED <<chunk_vars, objects, store_vars, rag, pipe_vars, call_vars>>
RaceExists == (\E p \in Peers : PeerExists(p)) /\ RaceUnchanged
RaceCreate == (\E p \in Peers : PeerCreate(p)) /\ RaceUnchanged
RaceSleep == (\E p \in Peers : PeerSleep(p)) /\ RaceUnchanged
RaceRaise == (\E p \in Peers : PeerRaise(p)) /\ RaceUnchanged

InitRace ==
    /\ collection_exists \in BOOLEAN
    /\ objects \in StoredBefore(collection_exists)
    /\ client = "none"
    /\ max_retries = 0
    /\ attempt = 0
    /\ last_error = "None"
    /\ ws_pc = "none"
    /\ rag = "none"
    /\ config = DefaultConfig
    /\ file_paths = <<>>
    /\ next_path = 1
    /\ total_chunks = 0
    /\ call = [op |-> "none"]
    /\ ret = Pending
    /\ io = <<>>
    /\ ChunkIdle
    /\ \E m1, m2 \in RaceRetries : peers = <<PeerStart(m1), PeerStart(m2)>>

NextRace ==
    \/ RaceExists
    \/ RaceCreate
    \/ RaceSleep
    \/ RaceRaise

PeerStep(p) ==
    (PeerExists(p) \/ PeerCreate(p) \/ PeerSleep(p) \/ PeerRaise(p)) /\ RaceUnchanged

\* Each constructor is a running thread: its next step is eventually taken.
SpecRace ==
    InitRace /\ [][NextRace]_vars /\ WF_vars(PeerStep(1)) /\ WF_vars(PeerStep(2))

\* ===================================================================
\* Properties of concurrent provisioning (checked under SpecRace)
\* ===================================================================
PeerEvents(p, what) == Where(peers[p].io, what)
ServiceFailed ==
    \E p \in Peers : \E i \in 1..Len(peers[p].io) : peers[p].io[i].result \in Failures
BothAtLeastTwo == \A p \in Peers : peers[p].max_retries >= 2
BothConstructed == \A p \in Peers : peers[p].pc = "ready" /\ peers[p].outcome = "return"
CreatedBy(p) == SelectSeq(peers[p].io, LAMBDA e : e.what = "create" /\ e.result = "ok")
LostTheRace(p) ==
    \E i \in 1..Len(peers[p].io) :
        peers[p].io[i].what = "create" /\ peers[p].io[i].result = "already_exists"

\* C22: two constructors provisioning the same collection at the same time,
\* each with max_retries >= 2 and the service otherwise available: in every
\* interleaving both constructions return, neither raises ConnectionError,
\* the collection is created exactly once, and a constructor whose create
\* was refused because the other created the collection first finds it with
\* the exists call of its next attempt.
C22_ConcurrentProvisioning ==
    /\ []((BothAtLeastTwo /\ ~ServiceFailed) =>
            /\ \A p \in Peers :
                  /\ peers[p].pc \notin {"raise", "failed"}
                  /\ peers[p].outcome # "raise"
                  /\ peers[p].attempt <= 1
                  /\ Len(PeerEvents(p, "create")) <= 1
                  /\ (LostTheRace(p) /\ peers[p].pc = "ready") =>
                        /\ peers[p].attempt = 1
                        /\ PeerEvents(p, "sleep") = <<Event("sleep", 1, "", "ok")>>
                        /\ PeerEvents(p, "exists")
                              = <<Event("exists", 0, "", "ok"), Event("exists", 1, "", "ok")>>
            /\ Len(CreatedBy(1)) + Len(CreatedBy(2)) <= 1
            /\ (LostTheRace(1) \/ LostTheRace(2)) =>
                  Len(CreatedBy(1)) + Len(CreatedBy(2)) = 1
            /\ BothConstructed =>
                  /\ collection_exists
                  /\ \/ Len(CreatedBy(1)) + Len(CreatedBy(2)) = 1
                     \/ \A p \in Peers : PeerEvents(p, "create") = <<>>)
    /\ [][collection_exists => collection_exists']_vars
    /\ (BothAtLeastTwo ~> (ServiceFailed \/ BothConstructed))

C22_Witness ==
    /\ BothAtLeastTwo
    /\ ~ServiceFailed
    /\ BothConstructed
    /\ Len(CreatedBy(1)) = 1
    /\ LostTheRace(2)
    /\ peers[2].attempt = 1
    /\ peers[1].attempt = 0

====
